---- MODULE Spec2Model ----
(***************************************************************************)
(* Model of src/ExplanationGenerator.py (inGen explainability module).     *)
(*                                                                         *)
(* A log line is a sequence of tokens.  Each token stands for a fixed,     *)
(* non-empty piece of text; the literal pieces the code searches for are   *)
(* tokens of their own, so that the substring tests and the three regular  *)
(* expressions of the code are computed over the line, token by token:     *)
(*   "TS"   a timestamp, source tag and level, e.g. `2024-.. [inChat] INFO: ` *)
(*   "IR"   `Intent received`        "AF"  `Adaptation for `               *)
(*   "IID"  `Intent ID`              "CS"  `: `                            *)
(*   "DASH" ` - `                    "Q"   a double quote                  *)
(*   "0" "1" "2"  decimal digits     "a" "b"  ordinary text                *)
(*   "<"    a markup-significant character                                 *)
(*   "NL"   the newline that readlines() keeps at the end of a line        *)
(* "TS" occurs only as the first token of a line.                          *)
(* Strings produced by the program (ids, texts, the plain explanation, the *)
(* HTML document) are token sequences too; "" is the empty sequence.       *)
(***************************************************************************)
EXTENDS Integers, Sequences, FiniteSets, TLC

VARIABLES log_entries, pc, i, explanation, intent_adaptations, html_content, prompt

vars == <<log_entries, pc, i, explanation, intent_adaptations, html_content, prompt>>

\* Longest log read by _read_log_entries in the model.
MaxLog == 3

-----------------------------------------------------------------------------
\* Pattern helpers: what `in` and re.search compute.

Digits == {"0", "1", "2"}

IsDigit(t) == t \in Digits

SetMin(S) == CHOOSE x \in S : \A y \in S : x <= y

SetMax(S) == CHOOSE x \in S : \A y \in S : x >= y

\* `pat in entry`: pat occurs as a contiguous piece of entry.
Contains(entry, pat) ==
    \E p \in 1..(Len(entry) - Len(pat) + 1) : SubSeq(entry, p, p + Len(pat) - 1) = pat

\* Greedy \d+ starting at position p (entry[p] is a digit): last index of the run.
DigitRunEnd(entry, p) ==
    SetMax({q \in p..Len(entry) : \A k \in p..q : IsDigit(entry[k])})

\* Greedy .+ starting at position p: `.` matches anything but a newline.
\* Last index of the longest run without a newline, p - 1 when the run is empty.
DotRunEnd(entry, p) ==
    SetMax({q \in (p - 1)..Len(entry) : \A k \in p..q : entry[k] # "NL"})

\* Positions where r"Intent ID: (\d+)" matches.
IntentIdMatches(entry) ==
    {p \in 1..Len(entry) :
        /\ p + 2 <= Len(entry)
        /\ entry[p] = "IID"
        /\ entry[p + 1] = "CS"
        /\ IsDigit(entry[p + 2])}

_extract_intent_id(entry) ==
    IF IntentIdMatches(entry) = {}
    THEN <<>>
    ELSE LET p == SetMin(IntentIdMatches(entry))
         IN  SubSeq(entry, p + 2, DigitRunEnd(entry, p + 2))

\* Positions where r"Adaptation for Intent ID: \d+ - (.+)" matches.
AdaptationMatches(entry) ==
    {p \in 1..Len(entry) :
        /\ p + 3 <= Len(entry)
        /\ entry[p] = "AF"
        /\ entry[p + 1] = "IID"
        /\ entry[p + 2] = "CS"
        /\ IsDigit(entry[p + 3])
        /\ LET e == DigitRunEnd(entry, p + 3)
           IN  /\ e + 2 <= Len(entry)
               /\ entry[e + 1] = "DASH"
               /\ entry[e + 2] # "NL"}

_extract_adaptation(entry) ==
    IF AdaptationMatches(entry) = {}
    THEN <<>>
    ELSE LET p == SetMin(AdaptationMatches(entry))
             e == DigitRunEnd(entry, p + 3)
         IN  SubSeq(entry, e + 2, DotRunEnd(entry, e + 2))

\* Closing quotes that r'Intent ID: \d+ - "(.+)"' can end on, the opening
\* quote being at position o: at least one non-newline token in between.
ClosingQuotes(entry, o) ==
    {q \in (o + 2)..Len(entry) : entry[q] = "Q" /\ q - 1 <= DotRunEnd(entry, o + 1)}

\* Positions where r'Intent ID: \d+ - "(.+)"' matches.
IntentTextMatches(entry) ==
    {p \in 1..Len(entry) :
        /\ p + 2 <= Len(entry)
        /\ entry[p] = "IID"
        /\ entry[p + 1] = "CS"
        /\ IsDigit(entry[p + 2])
        /\ LET e == DigitRunEnd(entry, p + 2)
           IN  /\ e + 2 <= Len(entry)
               /\ entry[e + 1] = "DASH"
               /\ entry[e + 2] = "Q"
               /\ ClosingQuotes(entry, e + 2) # {}}

_extract_intent_text(entry) ==
    IF IntentTextMatches(entry) = {}
    THEN <<>>
    ELSE LET p == SetMin(IntentTextMatches(entry))
             o == DigitRunEnd(entry, p + 2) + 2
         IN  SubSeq(entry, o + 1, SetMax(ClosingQuotes(entry, o)) - 1)

-----------------------------------------------------------------------------
\* Log lines the model reads.

RecvA1 == <<"TS", "IR", "DASH", "IID", "CS", "1", "DASH", "Q", "a", "Q", "NL">>
RecvB1 == <<"TS", "IR", "DASH", "IID", "CS", "1", "DASH", "Q", "b", "Q", "a", "Q", "NL">>
RecvM2 == <<"TS", "IR", "DASH", "IID", "CS", "2", "DASH", "Q", "<", "Q", "NL">>
RecvNoId == <<"TS", "IR", "NL">>
RecvNoText == <<"TS", "IR", "DASH", "IID", "CS", "1", "NL">>
AdaptA1 == <<"TS", "AF", "IID", "CS", "1", "DASH", "a", "NL">>
AdaptB1 == <<"TS", "AF", "IID", "CS", "1", "DASH", "b", "CS", "a", "NL">>
AdaptM2 == <<"TS", "AF", "IID", "CS", "2", "DASH", "<", "NL">>
AdaptA10 == <<"TS", "AF", "IID", "CS", "1", "0", "DASH", "a", "NL">>
AdaptNoId == <<"TS", "AF", "IID", "NL">>
Processed1 == <<"TS", "IID", "CS", "1", "a", "DASH", "Q", "b", "Q", "NL">>
Blank == <<"NL">>

Lines ==
    {RecvA1, RecvB1, RecvM2, RecvNoId, RecvNoText, AdaptA1, AdaptB1, AdaptM2,
     AdaptA10, AdaptNoId, Processed1, Blank}

RECURSIVE LogsOfLen(_)
LogsOfLen(n) ==
    IF n = 0 THEN {<<>>}
    ELSE {Append(l, e) : l \in LogsOfLen(n - 1), e \in Lines}

Logs == UNION {LogsOfLen(n) : n \in 0..MaxLog}

-----------------------------------------------------------------------------
\* The dict intent_adaptations: a sequence of items in insertion order, each
\* [key, intent, adaptations]; keys are unique.

Keys(table) == [k \in 1..Len(table) |-> table[k].key]

HasKey(table, id) == \E k \in 1..Len(table) : table[k].key = id

IndexOf(table, id) == CHOOSE k \in 1..Len(table) : table[k].key = id

\* Variant of SetItem: the item always goes last, also for an existing key.
SetItem_always_append(table, id, text, adaptations) ==
    Append(table, [key |-> id, intent |-> text, adaptations |-> adaptations])

\* Variant of SetItem: an existing key is removed and re-inserted last.
SetItem_move_to_end(table, id, text, adaptations) ==
    Append(SelectSeq(table, LAMBDA item : item.key # id),
           [key |-> id, intent |-> text, adaptations |-> adaptations])

\* table[id] = {'intent': text, 'adaptations': adaptations}: an existing key
\* keeps its position and gets the new value, a new key goes last.
SetItem(table, id, text, adaptations) ==
    LET item == [key |-> id, intent |-> text, adaptations |-> adaptations]
    IN  IF HasKey(table, id)
        THEN [table EXCEPT ![IndexOf(table, id)] = item]
        ELSE Append(table, item)

\* table[id]['adaptations'].append(text), id being a key of table.
AppendAdaptation(table, id, text) ==
    [table EXCEPT ![IndexOf(table, id)].adaptations = Append(@, text)]

IsIntentReceived(entry) == Contains(entry, <<"IR">>)

IsAdaptation(entry) == Contains(entry, <<"AF", "IID">>)

\* Variant of the loop body: an adaptation for an unknown id creates a record
\* with empty text.
_extract_intent_adaptations_placeholder(table, entry) ==
    IF IsIntentReceived(entry)
    THEN SetItem(table, _extract_intent_id(entry), _extract_intent_text(entry), <<>>)
    ELSE IF IsAdaptation(entry)
    THEN IF HasKey(table, _extract_intent_id(entry))
         THEN AppendAdaptation(table, _extract_intent_id(entry), _extract_adaptation(entry))
         ELSE SetItem(table, _extract_intent_id(entry), <<>>, <<_extract_adaptation(entry)>>)
    ELSE table

\* One iteration of the loop of _extract_intent_adaptations.
_extract_intent_adaptations(table, entry) ==
    IF IsIntentReceived(entry)
    THEN SetItem(table, _extract_intent_id(entry), _extract_intent_text(entry), <<>>)
    ELSE IF IsAdaptation(entry)
    THEN IF HasKey(table, _extract_intent_id(entry))
         THEN AppendAdaptation(table, _extract_intent_id(entry), _extract_adaptation(entry))
         ELSE table
    ELSE table

-----------------------------------------------------------------------------
\* The plain-text explanation.

\* Variant of _extract_intent_entries: only lines the adaptation pattern matches.
_extract_intent_entries_matching(entries) ==
    SelectSeq(entries, LAMBDA entry : AdaptationMatches(entry) # {})

_extract_intent_entries(entries) == SelectSeq(entries, IsAdaptation)

\* f"System adaptation for Intent ID {intent_id}: {adaptation}\n"
ExplanationLine(entry) ==
    <<"SA">> \o _extract_intent_id(entry) \o <<"CS">> \o _extract_adaptation(entry) \o <<"NL">>

RECURSIVE Concat(_)
Concat(parts) ==
    IF parts = <<>> THEN <<>> ELSE Head(parts) \o Concat(Tail(parts))

_generate_explanation(entries) ==
    LET intent_entries == _extract_intent_entries(entries)
    IN  Concat([k \in 1..Len(intent_entries) |-> ExplanationLine(intent_entries[k])])

-----------------------------------------------------------------------------
\* The HTML document.  The fixed pieces of the template are tokens:
\*   "HTML_HEAD"  everything up to and including the <h1> element
\*   "H2_OPEN"    `<h2>Intent ID: `       "H2_CLOSE"  `</h2>`
\*   "P_OPEN"     `<p><strong>Intent:</strong> `
\*   "UL_OPEN"    `</p><p><strong>Adaptations:</strong></p><ul>`
\*   "LI_OPEN"    `<li>`   "LI_CLOSE"  `</li>`   "UL_CLOSE"  `</ul>`
\*   "HTML_TAIL"  `</body></html>`

HtmlAdaptations(adaptations) ==
    Concat([k \in 1..Len(adaptations) |-> <<"LI_OPEN">> \o adaptations[k] \o <<"LI_CLOSE">>])

HtmlSection(item) ==
    <<"H2_OPEN">> \o item.key \o <<"H2_CLOSE", "P_OPEN">> \o item.intent \o <<"UL_OPEN">>
        \o HtmlAdaptations(item.adaptations) \o <<"UL_CLOSE">>

generate_html_explanation(table) ==
    <<"HTML_HEAD">> \o Concat([k \in 1..Len(table) |-> HtmlSection(table[k])])
        \o <<"HTML_TAIL">>

-----------------------------------------------------------------------------
\* generate_explanation_prompt.  The names the body of the method can resolve:
\* its parameter and locals, and the names bound at module level.

PromptLocals == {"self", "messages", "entry", "prompt"}

ModuleGlobals ==
    {"configparser", "re", "OpenAI", "Ollama", "ChatPromptTemplate",
     "CONFIG_FILE_PATH", "DATA_FILE_PATH", "LOG_FILE_PATH", "ExplanationGenerator"}

\* self.system_prompt, set by __init__.
system_prompt == <<"Please explain the system adaptations made based on the log entries.">>

\* The method reads the name log_entries, which is neither a parameter, a local
\* nor a module-level name: evaluating the comprehension raises NameError.
\* `entries` is what the name would hold were it bound to the log lines.
generate_explanation_prompt(entries) ==
    IF "log_entries" \in PromptLocals \cup ModuleGlobals
    THEN [raised |-> "none",
          messages |-> <<[role |-> "system", content |-> system_prompt]>>
                       \o [k \in 1..Len(entries) |-> [role |-> "user", content |-> entries[k]]]]
    ELSE [raised |-> "NameError", messages |-> <<>>]

-----------------------------------------------------------------------------
\* The run of __main__: generate_explanation(), then generate_html_explanation()
\* (correlation, one log line per step, then rendering).  log_entries is the
\* list returned by _read_log_entries.

Unset == [raised |-> "unset", messages |-> <<>>]

Init ==
    /\ log_entries \in Logs
    /\ pc = "start"
    /\ i = 0
    /\ explanation = <<>>
    /\ intent_adaptations = <<>>
    /\ html_content = <<>>
    /\ prompt = Unset

GenerateExplanation ==
    /\ pc = "start"
    /\ explanation' = _generate_explanation(log_entries)
    /\ pc' = "correlate"
    /\ UNCHANGED <<log_entries, i, intent_adaptations, html_content, prompt>>

ExtractIntentAdaptations ==
    /\ pc = "correlate"
    /\ i < Len(log_entries)
    /\ intent_adaptations' = _extract_intent_adaptations(intent_adaptations, log_entries[i + 1])
    /\ i' = i + 1
    /\ UNCHANGED <<log_entries, pc, explanation, html_content, prompt>>

GenerateHtmlExplanation ==
    /\ pc = "correlate"
    /\ i = Len(log_entries)
    /\ html_content' = generate_html_explanation(intent_adaptations)
    /\ pc' = "done"
    /\ UNCHANGED <<log_entries, i, explanation, intent_adaptations, prompt>>

GenerateExplanationPrompt ==
    /\ pc = "done"
    /\ prompt = Unset
    /\ prompt' = generate_explanation_prompt(log_entries)
    /\ UNCHANGED <<log_entries, pc, i, explanation, intent_adaptations, html_content>>

Next ==
    \/ GenerateExplanation
    \/ ExtractIntentAdaptations
    \/ GenerateHtmlExplanation
    \/ GenerateExplanationPrompt

Spec == Init /\ [][Next]_vars

TypeOK ==
    /\ pc \in {"start", "correlate", "done"}
    /\ i \in 0..Len(log_entries)
    /\ \A k, l \in 1..Len(intent_adaptations) :
        intent_adaptations[k].key = intent_adaptations[l].key => k = l

-----------------------------------------------------------------------------
\* Vocabulary of the properties, read off the log.

ReceiptIndices(entries) == {k \in 1..Len(entries) : IsIntentReceived(entries[k])}

\* Lines handled as adaptations: the marker is present and the line is not an
\* intent-received line.
AdaptationIndices(entries) ==
    {k \in 1..Len(entries) : IsAdaptation(entries[k]) /\ ~IsIntentReceived(entries[k])}

IdAt(entries, k) == _extract_intent_id(entries[k])

ReceivedIds(entries) == {IdAt(entries, k) : k \in ReceiptIndices(entries)}

AdaptedIds(entries) == {IdAt(entries, k) : k \in AdaptationIndices(entries)}

\* Numeric ids referenced by an intent-received or an adaptation line.
ReferencedIds(entries) == (ReceivedIds(entries) \cup AdaptedIds(entries)) \ {<<>>}

\* Numeric ids referenced by adaptation lines only.
AdaptationOnlyIds(entries) == (AdaptedIds(entries) \ ReceivedIds(entries)) \ {<<>>}

FirstReceipt(entries, id) ==
    SetMin({k \in ReceiptIndices(entries) : IdAt(entries, k) = id})

FirstSeen(entries, id) ==
    SetMin({k \in ReceiptIndices(entries) \cup AdaptationIndices(entries) : IdAt(entries, k) = id})

\* The n-th smallest element of a set of numbers.
Nth(S, n) == CHOOSE x \in S : Cardinality({y \in S : y < x}) = n - 1

\* The elements of a set of indices in increasing order.
Ascending(S) == [n \in 1..Cardinality(S) |-> Nth(S, n)]

ItemOf(table, id) == table[IndexOf(table, id)]

Correlated == pc = "done"

\* Reading the rendered document back: the ids of its sections, in order.
RECURSIVE SectionIds(_)
SectionIds(html) ==
    IF html = <<>> THEN <<>>
    ELSE IF Head(html) = "H2_OPEN"
    THEN LET rest == Tail(html)
             close == SetMin({q \in 1..Len(rest) : rest[q] = "H2_CLOSE"})
         IN  <<SubSeq(rest, 1, close - 1)>> \o SectionIds(SubSeq(rest, close + 1, Len(rest)))
    ELSE SectionIds(Tail(html))

\* Reading the plain explanation back: its lines, without the newlines.
RECURSIVE SplitLines(_, _)
SplitLines(text, cur) ==
    IF text = <<>> THEN (IF cur = <<>> THEN <<>> ELSE <<cur>>)
    ELSE IF Head(text) = "NL"
    THEN <<cur>> \o SplitLines(Tail(text), <<>>)
    ELSE SplitLines(Tail(text), Append(cur, Head(text)))

-----------------------------------------------------------------------------
C2_RepeatedIntentKeepsAdaptations ==
    [][(/\ pc = "correlate"
        /\ i < Len(log_entries)
        /\ IsIntentReceived(log_entries[i + 1])
        /\ IdAt(log_entries, i + 1) # <<>>
        /\ HasKey(intent_adaptations, IdAt(log_entries, i + 1)))
       => (/\ HasKey(intent_adaptations', IdAt(log_entries, i + 1))
           /\ ItemOf(intent_adaptations', IdAt(log_entries, i + 1)).adaptations
                = ItemOf(intent_adaptations, IdAt(log_entries, i + 1)).adaptations)]_vars

\* C3: after correlation, the adaptations of every record with a numeric id
\* are the adaptation texts of the adaptation lines for that id that follow
\* the id's receipt, in log order, none lost.
C3_AdaptationsAfterReceiptInOrder ==
    Correlated =>
        \A n \in 1..Len(intent_adaptations) :
            LET id == intent_adaptations[n].key
                following == {k \in AdaptationIndices(log_entries) :
                                /\ IdAt(log_entries, k) = id
                                /\ k > FirstReceipt(log_entries, id)}
            IN  id # <<>> =>
                  intent_adaptations[n].adaptations
                    = [m \in 1..Cardinality(following) |->
                          _extract_adaptation(log_entries[Nth(following, m)])]

C6_PromptHasSystemThenUserMessages ==
    prompt # Unset =>
        /\ prompt.raised = "none"
        /\ Len(prompt.messages) = Len(log_entries) + 1
        /\ prompt.messages[1].role = "system"
        /\ \A k \in 1..Len(log_entries) :
              prompt.messages[k + 1] = [role |-> "user", content |-> log_entries[k]]

\* C7: a line that matches neither the intent-received pattern
\* `Intent ID: <digits> - "<text>"` nor the adaptation pattern
\* `Adaptation for Intent ID: <digits> - <text>` leaves the table unchanged.
C7_UnrecognizedLineLeavesTable ==
    [][(/\ pc = "correlate"
        /\ i < Len(log_entries)
        /\ IntentTextMatches(log_entries[i + 1]) = {}
        /\ AdaptationMatches(log_entries[i + 1]) = {})
       => intent_adaptations' = intent_adaptations]_vars

\* C8: no markup-significant character of the log appears unescaped in the
\* rendered document.
MarkupSignificant == {"<", "Q"}

C8_LogTextEscaped ==
    Correlated => \A p \in 1..Len(html_content) : html_content[p] \notin MarkupSignificant

\* C10: the plain explanation has one line per log line containing the
\* adaptation marker, in log order, `System adaptation for Intent ID <id>:
\* <adaptation>`, whether or not the id was received; every adaptation held by
\* the table is among them; a marker line without id and text gives a line
\* with empty id and empty adaptation.
ExpectedLine(entry) ==
    CASE entry = AdaptA1 -> <<"SA", "1", "CS", "a">>
      [] entry = AdaptB1 -> <<"SA", "1", "CS", "b", "CS", "a">>
      [] entry = AdaptM2 -> <<"SA", "2", "CS", "<">>
      [] entry = AdaptA10 -> <<"SA", "1", "0", "CS", "a">>
      [] entry = AdaptNoId -> <<"SA", "CS">>

MarkerIndices(entries) == {k \in 1..Len(entries) : Contains(entries[k], <<"AF", "IID">>)}

C10_ExplanationLinePerAdaptation ==
    pc # "start" =>
        LET out == SplitLines(explanation, <<>>)
            marked == Ascending(MarkerIndices(log_entries))
        IN  /\ Len(out) = Len(marked)
            /\ \A n \in 1..Len(marked) : out[n] = ExpectedLine(log_entries[marked[n]])
            /\ \A k \in 1..Len(intent_adaptations) :
                 \A m \in 1..Len(intent_adaptations[k].adaptations) :
                    \E n \in 1..Len(out) :
                        out[n] = <<"SA">> \o intent_adaptations[k].key \o <<"CS">>
                                    \o intent_adaptations[k].adaptations[m]

C10_Witness ==
    /\ Correlated
    /\ Len(SplitLines(explanation, <<>>)) = 2
    /\ AdaptationOnlyIds(log_entries) # {}
    /\ \E k \in 1..Len(intent_adaptations) : intent_adaptations[k].adaptations # <<>>

====
